---- MODULE Spec2Model ----
(***************************************************************************)
(* Model of the package-health service of src/main.py: the constraint      *)
(* parsers, the registry and vulnerability lookups, the health evaluator   *)
(* and the aggregating endpoints.                                          *)
(*                                                                         *)
(* Text is modelled as the sequence of the Unicode code points of its       *)
(* characters ("a==1" is <<97, 61, 61, 49>>), so that strip, split, lstrip *)
(* and substring search are computed and not assumed.  Python's None is    *)
(* the one-element sequence <<-1>>, which no text can equal since no code  *)
(* point is negative.                                                      *)
(***************************************************************************)
EXTENDS Integers, Sequences, FiniteSets, TLC

VARIABLES
    args,               \* pure functions: the arguments of the call
    ret,                \* pure functions: <<>> before the call, <<value>> after
    pc,                 \* endpoints: "idle", "loop" (aggregator running), "done"
    request,            \* endpoints: the request being handled
    packages,           \* endpoints: the parsed PackageDependency list
    results,            \* endpoints: the PackageHealthResponse list built so far
    counts,             \* endpoints: outdated_count, vulnerable_count, deprecated_count
    calls,              \* the external calls issued for the current request, in order
    lookups,            \* per result, the registry and OSV replies it was built from
    response            \* endpoints: <<>> while running, <<reply>> once answered

pureVars == <<args, ret>>
mainVars == <<pc, request, packages, results, counts, calls, lookups, response>>
vars == <<args, ret, pc, request, packages, results, counts, calls, lookups, response>>

-----------------------------------------------------------------------------
(* Bounds *)

MaxVulnCount == 8       \* largest vuln_count handed to the evaluator
MaxScores == 3          \* longest list of health scores averaged
MaxLen == 4             \* longest constraint / version text parsed
MaxBatch == 2           \* longest list of constraint strings in one request
MaxVulns == 2           \* longest advisory list the OSV reply carries

-----------------------------------------------------------------------------
(* Text helpers: Python str methods *)

None == <<-1>>

Min(a, b) == IF a < b THEN a ELSE b
Max(a, b) == IF a > b THEN a ELSE b
SetMin(S) == CHOOSE x \in S : \A y \in S : x <= y
SetMax(S) == CHOOSE x \in S : \A y \in S : x >= y

\* the code points str.isspace() holds of, which are the ones str.strip()
\* removes: tab, line feed, vertical tab, form feed, carriage return, the
\* separators 0x1c..0x1f, space, U+0085, U+00A0, U+1680, U+2000..U+200A,
\* U+2028, U+2029, U+202F, U+205F, U+3000
Whitespace ==
    {9, 10, 11, 12, 13, 28, 29, 30, 31, 32, 133, 160, 5760}
    \cup 8192..8202 \cup {8232, 8233, 8239, 8287, 12288}

\* str.strip(): leading and trailing whitespace removed
strip(s) ==
    LET idx == {i \in 1..Len(s) : s[i] \notin Whitespace}
    IN IF idx = {} THEN <<>> ELSE SubSeq(s, SetMin(idx), SetMax(idx))

\* str.startswith(c) for a one-character prefix c
startswith(s, c) == Len(s) >= 1 /\ s[1] = c

\* the positions at which op occurs in s
Occurrences(s, op) ==
    {i \in 1..(Len(s) - Len(op) + 1) : SubSeq(s, i, i + Len(op) - 1) = op}

\* `op in s`
contains(s, op) == Occurrences(s, op) # {}

\* s.split(op, 1) when op occurs in s: split at the first occurrence
split1(s, op) ==
    LET i == SetMin(Occurrences(s, op))
    IN <<SubSeq(s, 1, i - 1), SubSeq(s, i + Len(op), Len(s))>>

\* str.lstrip(chars): the leading run of characters of chars removed
RECURSIVE lstrip(_, _)
lstrip(s, chars) ==
    IF s # <<>> /\ Head(s) \in chars THEN lstrip(Tail(s), chars) ELSE s

\* Python truthiness of an Optional[str]
Truthy(v) == v # None /\ v # <<>>

RECURSIVE SumSeq(_)
SumSeq(s) == IF s = <<>> THEN 0 ELSE Head(s) + SumSeq(Tail(s))

\* all sequences over S of length at most n
SeqsUpTo(S, n) == UNION {[1..k -> S] : k \in 0..n}

-----------------------------------------------------------------------------
(* Health evaluator *)

calculate_health_score_uncapped(is_outdated, vuln_count, is_deprecated) ==
    LET s1 == IF is_outdated THEN 100 - 20 ELSE 100
        s2 == IF vuln_count > 0 THEN s1 - vuln_count * 15 ELSE s1
        s3 == IF is_deprecated THEN s2 - 30 ELSE s2
    IN Max(s3, 0)

calculate_health_score(is_outdated, vuln_count, is_deprecated) ==
    LET s1 == IF is_outdated THEN 100 - 20 ELSE 100
        s2 == IF vuln_count > 0 THEN s1 - Min(vuln_count * 15, 50) ELSE s1
        s3 == IF is_deprecated THEN s2 - 30 ELSE s2
    IN Max(s3, 0)

\* The four messages (the leading pictograph of each is left out).
CriticalMsg == "CRITICAL: Package is deprecated. Find an alternative immediately."
UrgentMsg(n) == "URGENT: " \o ToString(n) \o " vulnerabilities found. Update immediately."
UpdateMsg == "Update recommended to latest version."
HealthyMsg == "Package is healthy and up-to-date."

get_recommendation_vulns_first(health_score, is_outdated, vuln_count, is_deprecated) ==
    IF vuln_count > 0 THEN UrgentMsg(vuln_count)
    ELSE IF is_deprecated THEN CriticalMsg
    ELSE IF is_outdated THEN UpdateMsg
    ELSE HealthyMsg

get_recommendation(health_score, is_outdated, vuln_count, is_deprecated) ==
    IF is_deprecated THEN CriticalMsg
    ELSE IF vuln_count > 0 THEN UrgentMsg(vuln_count)
    ELSE IF is_outdated THEN UpdateMsg
    ELSE HealthyMsg

overall_score_ceil(scores) ==
    IF scores # <<>> THEN (SumSeq(scores) + Len(scores) - 1) \div Len(scores) ELSE 0

\* sum(r.health_score for r in results) // len(results) if results else 0
overall_score(scores) ==
    IF scores # <<>> THEN SumSeq(scores) \div Len(scores) ELSE 0

-----------------------------------------------------------------------------
(* Constraint-string parser of /analyze/python *)

\* ['==', '>=', '<=', '>', '<', '~=']
Ops == << <<61, 61>>, <<62, 61>>, <<60, 61>>, <<62>>, <<60>>, <<126, 61>> >>

PackageDependency(n, v) == [name |-> n, version |-> v]

\* for op in [...]: if op in pkg_str: ... break -- the index of the first
\* operator, in list order, that occurs in s; 0 when the loop runs to its else
RECURSIVE FirstOp(_, _)
FirstOp(s, k) ==
    IF k > Len(Ops) THEN 0
    ELSE IF contains(s, Ops[k]) THEN k
    ELSE FirstOp(s, k + 1)

\* the split taken at the last occurrence of the operator instead
split_last(s, op) ==
    LET i == SetMax(Occurrences(s, op))
    IN <<SubSeq(s, 1, i - 1), SubSeq(s, i + Len(op), Len(s))>>

parse_entry_split_last(pkg_str) ==
    LET s == strip(pkg_str)
    IN IF s = <<>> \/ startswith(s, 35) THEN <<>>
       ELSE LET k == FirstOp(s, 1)
            IN IF k = 0 THEN <<PackageDependency(s, None)>>
               ELSE LET parts == split_last(s, Ops[k])
                    IN <<PackageDependency(strip(parts[1]), strip(parts[2]))>>

\* one pass of the loop over request.packages: the dependencies it appends
parse_entry(pkg_str) ==
    LET s == strip(pkg_str)
    IN IF s = <<>> \/ startswith(s, 35) THEN <<>>
       ELSE LET k == FirstOp(s, 1)
            IN IF k = 0 THEN <<PackageDependency(s, None)>>
               ELSE LET parts == split1(s, Ops[k])
                    IN <<PackageDependency(strip(parts[1]), strip(parts[2]))>>

RECURSIVE parse_python_packages(_)
parse_python_packages(entries) ==
    IF entries = <<>> THEN <<>>
    ELSE parse_entry(Head(entries)) \o parse_python_packages(Tail(entries))

-----------------------------------------------------------------------------
(* Name -> constraint map parser of /analyze/npm *)

\* '^~>=<'
PrefixChars == {94, 126, 62, 61, 60}

clean_version_one_char(version) ==
    IF version # <<>> /\ Head(version) \in PrefixChars THEN Tail(version) ELSE version

\* version.lstrip('^~>=<')
clean_version(version) == lstrip(version, PrefixChars)

\* An Optional[Dict[str, str]]: None, or the items in insertion order with
\* distinct keys.
NoneDict == [none |-> TRUE, items |-> <<>>]
Dict(items) == [none |-> FALSE, items |-> items]

Keys(items) == {items[i].key : i \in 1..Len(items)}

\* one item of the right operand of {**a, **b} written into a: an existing key
\* keeps its position and takes the new value, a new key is appended
SetItem(items, it) ==
    IF it.key \in Keys(items)
    THEN [i \in 1..Len(items) |-> IF items[i].key = it.key THEN it ELSE items[i]]
    ELSE Append(items, it)

RECURSIVE merge_items(_, _)
merge_items(a, b) ==
    IF b = <<>> THEN a ELSE merge_items(SetItem(a, Head(b)), Tail(b))

\* {**request.dependencies, **(request.devDependencies or {})} and the loop over
\* its items; a None dependencies raises TypeError
parse_npm_packages(dependencies, devDependencies) ==
    IF dependencies.none THEN [raised |-> TRUE, packages |-> <<>>]
    ELSE LET all_deps == merge_items(dependencies.items, devDependencies.items)
         IN [raised |-> FALSE,
             packages |-> [i \in 1..Len(all_deps) |->
                 PackageDependency(all_deps[i].key, clean_version(all_deps[i].value))]]

-----------------------------------------------------------------------------
(* Specification of the pure functions: Init draws the arguments, each     *)
(* action applies one function.                                            *)

ScoreValues ==
    {calculate_health_score(o, n, d) : o \in BOOLEAN, n \in 0..MaxVulnCount, d \in BOOLEAN}

\* a = > < ~ # and the whitespace characters space, tab and U+00A0
PyAlphabet == {97, 61, 62, 60, 126, 35, 32, 9, 160}
\* ^ ~ > = < 1 . and space
NpmAlphabet == {94, 126, 62, 61, 60, 49, 46, 32}

\* "a", "b"
Names == {<<97>>, <<98>>}

\* "^1.0", "1.0", ">=1 <2", "latest", ""
NpmConstraints ==
    { <<94, 49, 46, 48>>, <<49, 46, 48>>, <<62, 61, 49, 32, 60, 50>>,
      <<108, 97, 116, 101, 115, 116>>, <<>> }

\* the dicts over the given keys and values, in every insertion order
DictItems(K, V) ==
    {s \in SeqsUpTo([key : K, value : V], Cardinality(K)) :
        \A i, j \in 1..Len(s) : i # j => s[i].key # s[j].key}

OptionalDicts(K, V) == {NoneDict} \cup {Dict(s) : s \in DictItems(K, V)}

ScoreArgs ==
    [fn : {"calculate_health_score"}, is_outdated : BOOLEAN,
     vuln_count : 0..MaxVulnCount, is_deprecated : BOOLEAN]

RecommendationArgs ==
    [fn : {"get_recommendation"}, health_score : {0, 50, 100}, is_outdated : BOOLEAN,
     vuln_count : 0..MaxVulnCount, is_deprecated : BOOLEAN]

OverallArgs == [fn : {"overall_score"}, scores : SeqsUpTo(ScoreValues, MaxScores)]

ParseEntryArgs == [fn : {"parse_entry"}, pkg_str : SeqsUpTo(PyAlphabet, MaxLen)]

CleanVersionArgs == [fn : {"clean_version"}, version : SeqsUpTo(NpmAlphabet, MaxLen)]

ParseNpmArgs ==
    [fn : {"parse_npm_packages"}, dependencies : OptionalDicts(Names, NpmConstraints),
     devDependencies : OptionalDicts(Names, NpmConstraints)]

NoArgs == [fn |-> "none"]

IdleMain ==
    /\ pc = "idle"
    /\ request = [endpoint |-> "none"]
    /\ packages = <<>>
    /\ results = <<>>
    /\ counts = [outdated |-> 0, vulnerable |-> 0, deprecated |-> 0]
    /\ calls = <<>>
    /\ lookups = <<>>
    /\ response = <<>>

InitPure ==
    /\ args \in ScoreArgs \cup RecommendationArgs \cup OverallArgs
                \cup ParseEntryArgs \cup CleanVersionArgs \cup ParseNpmArgs
    /\ ret = <<>>
    /\ IdleMain

CallScore ==
    /\ ret = <<>> /\ args.fn = "calculate_health_score"
    /\ ret' = <<calculate_health_score(args.is_outdated, args.vuln_count, args.is_deprecated)>>
    /\ UNCHANGED <<args, mainVars>>

CallRecommendation ==
    /\ ret = <<>> /\ args.fn = "get_recommendation"
    /\ ret' = <<get_recommendation(args.health_score, args.is_outdated,
                                   args.vuln_count, args.is_deprecated)>>
    /\ UNCHANGED <<args, mainVars>>

CallOverall ==
    /\ ret = <<>> /\ args.fn = "overall_score"
    /\ ret' = <<overall_score(args.scores)>>
    /\ UNCHANGED <<args, mainVars>>

CallParseEntry ==
    /\ ret = <<>> /\ args.fn = "parse_entry"
    /\ ret' = <<parse_entry(args.pkg_str)>>
    /\ UNCHANGED <<args, mainVars>>

CallCleanVersion ==
    /\ ret = <<>> /\ args.fn = "clean_version"
    /\ ret' = <<clean_version(args.version)>>
    /\ UNCHANGED <<args, mainVars>>

CallParseNpm ==
    /\ ret = <<>> /\ args.fn = "parse_npm_packages"
    /\ ret' = <<parse_npm_packages(args.dependencies, args.devDependencies)>>
    /\ UNCHANGED <<args, mainVars>>

NextPure ==
    \/ CallScore
    \/ CallRecommendation
    \/ CallOverall
    \/ CallParseEntry
    \/ CallCleanVersion
    \/ CallParseNpm

SpecPure == InitPure /\ [][NextPure]_vars

Returned(fn) == args.fn = fn /\ ret # <<>>

-----------------------------------------------------------------------------
(* External replies.  A reply is what requests.get / requests.post and     *)
(* response.json() give the lookup: a raised exception, a non-200 status,  *)
(* a body that is not JSON, or a JSON body.                                *)

Missing == <<-2>>        \* the key is not in the JSON body

ReplyKinds == {"ok", "network_error", "bad_status", "not_json"}
FailureKinds == ReplyKinds \ {"ok"}

\* "1", "2"
RegistryVersions == {<<49>>, <<50>>}

\* PyPI: data['info']['version'] is a string, null, or not there
PypiReplies ==
    [kind : FailureKinds, version : {Missing}]
    \cup [kind : {"ok"}, version : RegistryVersions \cup {None, Missing}]

\* npm: data['dist-tags']['latest'] likewise, and data['deprecated'] is
\* true, false or not there
NpmReplies ==
    [kind : FailureKinds, version : {Missing}, deprecated : {"missing"}]
    \cup [kind : {"ok"}, version : RegistryVersions \cup {None, Missing},
          deprecated : {"missing", "true", "false"}]

Absent == "<absent>"

\* an advisory with an id only, and one whose severity list holds a first entry
\* that is not an object (vuln.get('severity')[0].get raises), and a full one
AdvBare ==
    [id |-> "GHSA-1", summary |-> Absent, severity |-> Absent, published |-> Absent]
AdvMalformed ==
    [id |-> "GHSA-2", summary |-> "s", severity |-> "[5]", published |-> "2020"]
AdvFull ==
    [id |-> "GHSA-3", summary |-> "s", severity |-> "[{type: CVSS_V3}]",
     published |-> "2020"]

Advisories == {AdvBare, AdvMalformed}

OsvReplies ==
    [kind : FailureKinds, vulns : {<<>>}]
    \cup [kind : {"ok"}, vulns : SeqsUpTo(Advisories, MaxVulns)]

\* the single-package endpoint is also given the full advisory
SingleOsvReplies ==
    OsvReplies \cup [kind : {"ok"}, vulns : SeqsUpTo(Advisories \cup {AdvFull}, MaxVulns)]

-----------------------------------------------------------------------------
(* Registry clients *)

RegistryFallback == [latest_version |-> None, is_outdated |-> FALSE]

check_pypi_package(package_name, current_version, reply) ==
    IF reply.kind = "ok" /\ reply.version # Missing
    THEN [latest_version |-> reply.version,
          is_outdated |-> IF Truthy(current_version)
                          THEN current_version # reply.version ELSE FALSE]
    ELSE RegistryFallback

check_npm_package(package_name, current_version, reply) ==
    IF reply.kind = "ok"
    THEN LET latest_version == IF reply.version = Missing THEN None ELSE reply.version
         IN [latest_version |-> latest_version,
             is_outdated |-> IF Truthy(current_version) /\ Truthy(latest_version)
                             THEN current_version # latest_version ELSE FALSE,
             deprecated |-> reply.deprecated = "true"]
    ELSE [latest_version |-> None, is_outdated |-> FALSE, deprecated |-> FALSE]

\* info.get('deprecated', False)
get_deprecated(info) == IF "deprecated" \in DOMAIN info THEN info.deprecated ELSE FALSE

-----------------------------------------------------------------------------
(* Vulnerability client *)

\* the expressions of the dict literal appended per advisory raise when the
\* first severity entry is not an object
AdvisoryRaises(vuln) == vuln.severity = "[5]"

map_advisory(vuln) ==
    [id |-> IF vuln.id = Absent THEN "None" ELSE vuln.id,
     summary |-> IF vuln.summary = Absent THEN "No summary available" ELSE vuln.summary,
     severity |-> IF vuln.severity \in {Absent, "[]"} THEN "UNKNOWN"
                  ELSE IF vuln.severity = "[{}]" THEN "UNKNOWN"
                  ELSE "CVSS_V3",
     published |-> IF vuln.published = Absent THEN "" ELSE vuln.published]

\* for vuln in vulns: vulnerabilities.append({...}) inside the try: an advisory
\* that raises ends the loop and leaves what was appended before it
RECURSIVE map_vulns(_, _)
map_vulns(vulns, vulnerabilities) ==
    IF vulns = <<>> THEN vulnerabilities
    ELSE IF AdvisoryRaises(Head(vulns)) THEN vulnerabilities
    ELSE map_vulns(Tail(vulns), Append(vulnerabilities, map_advisory(Head(vulns))))

check_vulnerabilities_osv(package_name, ecosystem, reply) ==
    IF reply.kind = "ok" THEN map_vulns(reply.vulns, <<>>) ELSE <<>>

-----------------------------------------------------------------------------
(* Endpoints *)

PackageHealthResponse(pkg, latest_version, is_outdated, vulnerabilities, is_deprecated) ==
    LET health_score ==
            calculate_health_score(is_outdated, Len(vulnerabilities), is_deprecated)
    IN [name |-> pkg.name,
        current_version |-> pkg.version,
        latest_version |-> latest_version,
        is_outdated |-> is_outdated,
        has_vulnerabilities |-> Len(vulnerabilities) > 0,
        vulnerability_count |-> Len(vulnerabilities),
        is_deprecated |-> is_deprecated,
        health_score |-> health_score,
        recommendation |-> get_recommendation(health_score, is_outdated,
                                              Len(vulnerabilities), is_deprecated),
        vulnerabilities |-> vulnerabilities]

add_counts_by_vulns(c, r) ==
    [outdated |-> c.outdated + (IF r.is_outdated THEN 1 ELSE 0),
     vulnerable |-> c.vulnerable + r.vulnerability_count,
     deprecated |-> c.deprecated + (IF r.is_deprecated THEN 1 ELSE 0)]

\* if is_outdated: outdated_count += 1, and so on
add_counts(c, r) ==
    [outdated |-> c.outdated + (IF r.is_outdated THEN 1 ELSE 0),
     vulnerable |-> c.vulnerable + (IF r.has_vulnerabilities THEN 1 ELSE 0),
     deprecated |-> c.deprecated + (IF r.is_deprecated THEN 1 ELSE 0)]

HealthScores(rs) == [i \in 1..Len(rs) |-> rs[i].health_score]

OverallHealthResponse(rs, c) ==
    [total_packages |-> Len(rs),
     outdated_count |-> c.outdated,
     vulnerable_count |-> c.vulnerable,
     deprecated_count |-> c.deprecated,
     overall_health_score |-> overall_score(HealthScores(rs)),
     packages |-> rs]

Ok(body) == [status |-> 200, body |-> body]
HTTPException(status_code, detail) == [status |-> status_code, detail |-> detail]
ServerError == [status |-> 500, detail |-> "TypeError"]

\* if not packages: raise HTTPException(400, ...)
no_packages(pkgs) == pkgs = <<>>

ecosystem_valid_any(ecosystem) == TRUE

\* ecosystem in ["python", "npm"]
ecosystem_valid(ecosystem) == ecosystem \in {"python", "npm"}

\* what the claims call a failed lookup: an exception, a non-200 status, a body
\* that is not JSON, or a JSON body without a usable value
RegistryOutcome(reply) ==
    IF reply.kind # "ok" THEN reply.kind
    ELSE IF reply.version \in {Missing, None} THEN "malformed"
    ELSE "ok"

OsvOutcome(reply) ==
    IF reply.kind # "ok" THEN reply.kind
    ELSE IF \E i \in 1..Len(reply.vulns) : AdvisoryRaises(reply.vulns[i]) THEN "malformed"
    ELSE "ok"

Call(service, name) == [service |-> service, name |-> name]

\* "a==1", "\xa0b\n", "# a", " \t"
PyEntries ==
    { <<97, 61, 61, 49>>, <<160, 98, 10>>, <<35, 32, 97>>, <<32, 9>> }

PythonRequests == [endpoint : {"python"}, packages : SeqsUpTo(PyEntries, MaxBatch)]

NpmRequests ==
    [endpoint : {"npm"},
     dependencies : OptionalDicts(Names, {<<94, 49>>}),
     devDependencies : OptionalDicts({<<98>>}, {<<50>>})]       \* "^1"; "b": "2"

SingleRequests ==
    [endpoint : {"single"},
     package : [name : Names, version : {None, <<>>, <<49>>}],
     ecosystem : {"python", "npm", "ruby"}]

Init ==
    /\ args = NoArgs
    /\ ret = <<>>
    /\ IdleMain

\* the handler up to its loop: parse, reject an empty batch, and, with nothing
\* to loop over, return the aggregate of no results
Begin(req, parsed) ==
    /\ request' = req
    /\ calls' = <<>>
    /\ lookups' = <<>>
    /\ results' = <<>>
    /\ counts' = [outdated |-> 0, vulnerable |-> 0, deprecated |-> 0]
    /\ IF parsed.raised
       THEN /\ packages' = <<>>
            /\ response' = <<ServerError>>
            /\ pc' = "done"
       ELSE /\ packages' = parsed.packages
            /\ IF no_packages(parsed.packages)
               THEN /\ response' = <<HTTPException(400,
                            "No valid packages found in the provided content")>>
                    /\ pc' = "done"
               ELSE IF parsed.packages = <<>>
               THEN /\ response' = <<Ok(OverallHealthResponse(<<>>, counts'))>>
                    /\ pc' = "done"
               ELSE /\ response' = <<>>
                    /\ pc' = "loop"

AnalyzePython ==
    /\ pc = "idle"
    /\ \E req \in PythonRequests :
         Begin(req, [raised |-> FALSE, packages |-> parse_python_packages(req.packages)])
    /\ UNCHANGED pureVars

AnalyzeNpm ==
    /\ pc = "idle"
    /\ \E req \in NpmRequests :
         Begin(req, parse_npm_packages(req.dependencies, req.devDependencies))
    /\ UNCHANGED pureVars

\* one pass of `for pkg in packages`, and after the last one the response
Record(r, reg, osv, registry) ==
    /\ results' = Append(results, r)
    /\ counts' = add_counts(counts, r)
    /\ calls' = calls \o <<Call(registry, r.name), Call("osv", r.name)>>
    /\ lookups' = Append(lookups,
                         [registry |-> RegistryOutcome(reg), osv |-> OsvOutcome(osv)])
    /\ IF Len(results') = Len(packages)
       THEN /\ response' = <<Ok(OverallHealthResponse(results', counts'))>>
            /\ pc' = "done"
       ELSE UNCHANGED <<response, pc>>
    /\ UNCHANGED <<request, packages, pureVars>>

AnalyzePythonStep ==
    /\ pc = "loop" /\ request.endpoint = "python"
    /\ \E reg \in PypiReplies, osv \in OsvReplies :
         LET pkg == packages[Len(results) + 1]
             pypi_info == check_pypi_package(pkg.name, pkg.version, reg)
             vulnerabilities == check_vulnerabilities_osv(pkg.name, "python", osv)
         IN Record(PackageHealthResponse(pkg, pypi_info.latest_version,
                        pypi_info.is_outdated, vulnerabilities, FALSE),
                   reg, osv, "pypi")

AnalyzeNpmStep ==
    /\ pc = "loop" /\ request.endpoint = "npm"
    /\ \E reg \in NpmReplies, osv \in OsvReplies :
         LET pkg == packages[Len(results) + 1]
             npm_info == check_npm_package(pkg.name, pkg.version, reg)
             vulnerabilities == check_vulnerabilities_osv(pkg.name, "npm", osv)
         IN Record(PackageHealthResponse(pkg, npm_info.latest_version,
                        npm_info.is_outdated, vulnerabilities, get_deprecated(npm_info)),
                   reg, osv, "npm")

CheckSinglePackage ==
    /\ pc = "idle"
    /\ \E req \in SingleRequests :
         /\ request' = req
         /\ packages' = <<req.package>>
         /\ pc' = "done"
         /\ IF ~ecosystem_valid(req.ecosystem)
            THEN /\ response' = <<HTTPException(400, "Ecosystem must be 'python' or 'npm'")>>
                 /\ UNCHANGED <<results, counts, calls, lookups>>
            ELSE \E osv \in SingleOsvReplies :
                 \E reg \in IF req.ecosystem = "python" THEN PypiReplies ELSE NpmReplies :
                   LET pkg_info == IF req.ecosystem = "python"
                                   THEN check_pypi_package(req.package.name,
                                                           req.package.version, reg)
                                   ELSE check_npm_package(req.package.name,
                                                          req.package.version, reg)
                       vulnerabilities ==
                           check_vulnerabilities_osv(req.package.name, req.ecosystem, osv)
                       r == PackageHealthResponse(req.package, pkg_info.latest_version,
                                pkg_info.is_outdated, vulnerabilities,
                                get_deprecated(pkg_info))
                   IN /\ results' = <<r>>
                      /\ response' = <<Ok(r)>>
                      /\ calls' = <<Call(IF req.ecosystem = "python" THEN "pypi" ELSE "npm",
                                         req.package.name),
                                    Call("osv", req.package.name)>>
                      /\ lookups' = <<[registry |-> RegistryOutcome(reg),
                                       osv |-> OsvOutcome(osv)]>>
                      /\ UNCHANGED counts
    /\ UNCHANGED pureVars

\* the response is sent and the service waits for the next request
NextRequest ==
    /\ pc = "done"
    /\ pc' = "idle"
    /\ request' = [endpoint |-> "none"]
    /\ packages' = <<>>
    /\ results' = <<>>
    /\ counts' = [outdated |-> 0, vulnerable |-> 0, deprecated |-> 0]
    /\ calls' = <<>>
    /\ lookups' = <<>>
    /\ response' = <<>>
    /\ UNCHANGED pureVars

Next ==
    \/ AnalyzePython
    \/ AnalyzePythonStep
    \/ AnalyzeNpm
    \/ AnalyzeNpmStep
    \/ CheckSinglePackage
    \/ NextRequest

Spec == Init /\ [][Next]_vars

Answered == pc = "done" /\ response # <<>>
Reply == response[1]

\* the endpoints and the pure functions side by side: a behaviour is either
\* one of the service or one call of a pure function
InitAll == Init \/ InitPure
NextAll == (args = NoArgs /\ Next) \/ NextPure

SpecAll == InitAll /\ [][NextAll]_vars

-----------------------------------------------------------------------------
(* Claims *)

Penalty(is_outdated, vuln_count, is_deprecated) ==
    (IF is_outdated THEN 20 ELSE 0)
    + (IF vuln_count > 0 THEN Min(15 * vuln_count, 50) ELSE 0)
    + (IF is_deprecated THEN 30 ELSE 0)

\* C1: for every is_outdated, vuln_count >= 0 and is_deprecated,
\* calculate_health_score returns max(0, 100 - 20 [outdated]
\* - min(15 n, 50) [n > 0] - 30 [deprecated]), the penalties stacking, so the
\* result is an integer in 0..100.
C1_ScoreFormula ==
    Returned("calculate_health_score") =>
        /\ ret[1] = Max(0, 100 - Penalty(args.is_outdated, args.vuln_count,
                                         args.is_deprecated))
        /\ ret[1] \in 0..100

\* all three penalties at once, the vulnerability penalty capped: the score is 0
C1_Witness ==
    /\ Returned("calculate_health_score")
    /\ args.is_outdated /\ args.is_deprecated /\ args.vuln_count >= 4
    /\ ret[1] = 0

\* C2: get_recommendation picks its message by priority, whatever the score:
\* deprecated gives the critical message; else a positive vulnerability count
\* gives the urgent message with that count; else outdated gives the update
\* message; else the healthy message.
C2_RecommendationPriority ==
    Returned("get_recommendation") =>
        /\ args.is_deprecated => ret[1] = CriticalMsg
        /\ ~args.is_deprecated /\ args.vuln_count > 0 =>
               ret[1] = "URGENT: " \o ToString(args.vuln_count)
                            \o " vulnerabilities found. Update immediately."
        /\ ~args.is_deprecated /\ args.vuln_count = 0 /\ args.is_outdated =>
               ret[1] = UpdateMsg
        /\ ~args.is_deprecated /\ args.vuln_count = 0 /\ ~args.is_outdated =>
               ret[1] = HealthyMsg

\* deprecated, vulnerable and outdated at once, with a perfect score passed in
C2_Witness ==
    /\ Returned("get_recommendation")
    /\ args.is_deprecated /\ args.vuln_count = 3 /\ args.is_outdated
    /\ args.health_score = 100
    /\ ret[1] = CriticalMsg

\* q is the integer floor of total / n
IsFloorOf(q, total, n) == q * n <= total /\ total < (q + 1) * n

\* C3: overall_health_score is the integer floor of the sum of the health
\* scores over their number for a nonempty batch, and 0 for an empty one
\* (no division is attempted); the same holds of every aggregate the two
\* batch endpoints return.
C3_OverallIsFloorAverage ==
    /\ Returned("overall_score") =>
           IF Len(args.scores) = 0 THEN ret[1] = 0
           ELSE IsFloorOf(ret[1], SumSeq(args.scores), Len(args.scores))
    /\ (Answered /\ request.endpoint \in {"python", "npm"} /\ Reply.status = 200) =>
           LET b == Reply.body
           IN IF b.total_packages = 0 THEN b.overall_health_score = 0
              ELSE IsFloorOf(b.overall_health_score,
                             SumSeq(HealthScores(b.packages)), b.total_packages)

\* the scores 100, 50, 30 give 60
C3_Witness ==
    /\ Returned("overall_score")
    /\ args.scores = <<100, 50, 30>>
    /\ ret[1] = 60

AnyLookupFailed == \E i \in 1..Len(lookups) : lookups[i].registry # "ok"

\* C4: a failed registry lookup (network error, non-success status, malformed
\* body) never raises past the endpoint: the lookup degrades to latest_version
\* absent, is_outdated false, is_deprecated false, and the endpoint returns a
\* complete PackageHealth for every dependency.
C4_RegistryFailureDegrades ==
    /\ \A i \in 1..Len(results) :
           lookups[i].registry # "ok" =>
               /\ results[i].latest_version = None
               /\ ~results[i].is_outdated
               /\ ~results[i].is_deprecated
    /\ (Answered /\ AnyLookupFailed) =>
           /\ Reply.status = 200
           /\ Len(results) = Len(packages)

\* C5: check_vulnerabilities_osv never raises, and whenever an error occurs
\* during the lookup (network error, non-success status, a malformed advisory
\* at any position) the list it returns is empty.
C5_OsvErrorGivesEmptyList ==
    \A i \in 1..Len(results) :
        lookups[i].osv # "ok" => results[i].vulnerabilities = <<>>

\* a whitespace character, as the claims mean it
Blank(c) ==
    \/ c \in 9..13 \/ c \in 28..32
    \/ c = 133 \/ c = 160 \/ c = 5760
    \/ c \in 8192..8202
    \/ c = 8232 \/ c = 8233 \/ c = 8239 \/ c = 8287 \/ c = 12288

\* s without its leading and trailing whitespace
Trimmed(s) ==
    IF \A i \in 1..Len(s) : Blank(s[i]) THEN <<>>
    ELSE LET a == CHOOSE i \in 1..Len(s) : ~Blank(s[i]) /\ \A j \in 1..(i - 1) : Blank(s[j])
             b == CHOOSE i \in 1..Len(s) : ~Blank(s[i]) /\ \A j \in (i + 1)..Len(s) : Blank(s[j])
         IN SubSeq(s, a, b)

\* blank after trimming, or a comment
Skipped(entry) == Trimmed(entry) = <<>> \/ Trimmed(entry)[1] = 35

\* the requests the endpoints must reject: a constraint list whose entries are
\* all blank or comments, an npm request whose merged map is empty, an
\* ecosystem other than python and npm
RequestInvalid ==
    CASE request.endpoint = "python" ->
            \A i \in 1..Len(request.packages) : Skipped(request.packages[i])
      [] request.endpoint = "npm" ->
            /\ ~request.dependencies.none
            /\ Keys(request.dependencies.items) \cup Keys(request.devDependencies.items) = {}
      [] request.endpoint = "single" -> request.ecosystem \notin {"python", "npm"}
      [] OTHER -> FALSE

\* C6: a validation error is signalled before any registry or vulnerability
\* lookup: an invalid request is answered 400 with no external call issued for
\* it, and no request answered 400 has an external call before or after.
C6_RejectedBeforeAnyLookup ==
    /\ (pc # "idle" /\ RequestInvalid) =>
           /\ Answered
           /\ Reply.status = 400
           /\ calls = <<>>
    /\ (Answered /\ Reply.status = 400) => (calls = <<>> /\ RequestInvalid)

\* a batch of two entries, a comment and a blank, is rejected with no call
C6_Witness ==
    /\ Answered
    /\ request.endpoint = "python"
    /\ Len(request.packages) = 2
    /\ request.packages[1] # request.packages[2]
    /\ Reply.status = 400
    /\ calls = <<>>

\* i is the first place at which op occurs in s
FirstAt(s, op, i) ==
    /\ i \in 1..(Len(s) - Len(op) + 1)
    /\ \A k \in 1..Len(op) : s[i + k - 1] = op[k]
    /\ \A j \in 1..(i - 1) : \E k \in 1..Len(op) : s[j + k - 1] # op[k]

OccursIn(s, op) == \E i \in 1..Len(s) : FirstAt(s, op, i)

\* k is the first operator, in the order ==, >=, <=, >, <, ~=, that occurs in s
Chosen(s, k) ==
    /\ k \in 1..Len(Ops)
    /\ OccursIn(s, Ops[k])
    /\ \A j \in 1..(k - 1) : ~OccursIn(s, Ops[j])

\* dep is the Dependency the claim describes for the entry s
SplitsAsClaimed(s, dep) ==
    IF \E k \in 1..Len(Ops) : OccursIn(s, Ops[k])
    THEN \E k \in 1..Len(Ops) : \E i \in 1..Len(s) :
            /\ Chosen(s, k)
            /\ FirstAt(s, Ops[k], i)
            /\ dep.name = Trimmed(SubSeq(s, 1, i - 1))
            /\ dep.version = Trimmed(SubSeq(s, i + Len(Ops[k]), Len(s)))
    ELSE dep.name = Trimmed(s) /\ dep.version = None

\* C7 as stated: every constraint string that contains a known operator yields
\* a Dependency whose name and version are the trimmed texts before and after
\* the first occurrence of the first operator in priority order.  (Its second
\* sentence, a Dependency for every string without an operator, fails likewise
\* on a blank entry.)
C7_Original ==
    (Returned("parse_entry") /\ \E k \in 1..Len(Ops) : OccursIn(args.pkg_str, Ops[k])) =>
        /\ Len(ret[1]) = 1
        /\ SplitsAsClaimed(args.pkg_str, ret[1][1])

\* C7 amended: the same for every entry that is not skipped (not empty after
\* trimming, not starting with #); a skipped entry yields no Dependency; the
\* parser raises on no entry.
C7_ParserSplitsAtFirstOperator ==
    Returned("parse_entry") =>
        IF Skipped(args.pkg_str) THEN ret[1] = <<>>
        ELSE /\ Len(ret[1]) = 1
             /\ SplitsAsClaimed(Trimmed(args.pkg_str), ret[1][1])

\* "\xa0<==": the no-break space is trimmed, and == is chosen over <=, which
\* occurs earlier in the text; the name is "<" and the version is empty
C7_Witness ==
    /\ Returned("parse_entry")
    /\ args.pkg_str = <<160, 60, 61, 61>>
    /\ ret[1] = <<[name |-> <<60>>, version |-> <<>>]>>

\* out is v without its leading run of ^ ~ > = <
LeadingRunStripped(v, out) ==
    \E k \in 0..Len(v) :
        /\ \A j \in 1..k : v[j] \in {94, 126, 62, 61, 60}
        /\ k < Len(v) => v[k + 1] \notin {94, 126, 62, 61, 60}
        /\ out = SubSeq(v, k + 1, Len(v))

\* the digits and the dot
NumericChars == 48..57 \cup {46}

\* the first maximal run of digits and dots of s, <<>> when it has none
FirstNumericToken(s) ==
    LET starts == {i \in 1..Len(s) : s[i] \in NumericChars}
    IN IF starts = {} THEN <<>>
       ELSE LET a == SetMin(starts)
                ends == {j \in a..Len(s) : \A m \in a..j : s[m] \in NumericChars}
            IN SubSeq(s, a, SetMax(ends))

ValueOf(items, key) == items[CHOOSE i \in 1..Len(items) : items[i].key = key].value

MergedKeys == Keys(args.dependencies.items) \cup Keys(args.devDependencies.items)

MergedValueOf(key) ==
    IF key \in Keys(args.devDependencies.items)
    THEN ValueOf(args.devDependencies.items, key)
    ELSE ValueOf(args.dependencies.items, key)

\* one Dependency per key of the merged map, its name the key and its version
\* acceptable for the merged value
OnePerMergedKey(pkgs, Acceptable(_, _)) ==
    /\ Len(pkgs) = Cardinality(MergedKeys)
    /\ \A key \in MergedKeys : \E i \in 1..Len(pkgs) :
           /\ pkgs[i].name = key
           /\ Acceptable(MergedValueOf(key), pkgs[i].version)

StrippedToToken(v, out) == LeadingRunStripped(v, out) /\ out = FirstNumericToken(out)

\* C8 as stated: per entry of the merged map (devDependencies overriding), the
\* name is the key and the declared version is the constraint without its
\* leading run of ^ ~ > = <, which is the first numeric/dot token that remains.
C8_Original ==
    /\ Returned("clean_version") => StrippedToToken(args.version, ret[1])
    /\ (Returned("parse_npm_packages") /\ ~args.dependencies.none) =>
           /\ ~ret[1].raised
           /\ OnePerMergedKey(ret[1].packages, StrippedToToken)

\* C8 amended: the declared version is the constraint without its leading run
\* of ^ ~ > = <, that is everything that follows the run, whatever it holds.
C8_VersionIsRestAfterPrefix ==
    /\ Returned("clean_version") => LeadingRunStripped(args.version, ret[1])
    /\ (Returned("parse_npm_packages") /\ ~args.dependencies.none) =>
           /\ ~ret[1].raised
           /\ OnePerMergedKey(ret[1].packages, LeadingRunStripped)

\* "a" is in both maps: the devDependencies constraint ">=1 <2" wins over
\* "^1.0" and gives the version "1 <2"
C8_Witness ==
    /\ Returned("parse_npm_packages")
    /\ args.dependencies = Dict(<<[key |-> <<97>>, value |-> <<94, 49, 46, 48>>]>>)
    /\ args.devDependencies =
           Dict(<<[key |-> <<97>>, value |-> <<62, 61, 49, 32, 60, 50>>]>>)
    /\ ret[1].packages = <<[name |-> <<97>>, version |-> <<49, 32, 60, 50>>]>>

\* C9: in every PackageHealth, is_outdated is true only if a declared version
\* and a latest version are both present and differ; an absent declared
\* version gives is_outdated false, and an absent latest_version never comes
\* with is_outdated true.
C9_OutdatedNeedsBothVersions ==
    \A i \in 1..Len(results) :
        /\ results[i].is_outdated =>
               /\ results[i].current_version # None
               /\ results[i].latest_version # None
               /\ results[i].current_version # results[i].latest_version
        /\ results[i].current_version = None => ~results[i].is_outdated

CountOf(rs, Flag(_)) == Cardinality({i \in 1..Len(rs) : Flag(rs[i])})
IsOutdated(r) == r.is_outdated
IsVulnerable(r) == r.vulnerability_count > 0
IsDeprecated(r) == r.is_deprecated

\* C10: the aggregate holds one PackageHealth per parsed Dependency in parsed
\* order (duplicates kept), total_packages is the length of the list, and the
\* three counts are the numbers of listed packages with the flag set, each at
\* most total_packages.
C10_AggregateMatchesBatch ==
    (Answered /\ request.endpoint \in {"python", "npm"} /\ Reply.status = 200) =>
        LET b == Reply.body
        IN /\ Len(b.packages) = Len(packages)
           /\ \A i \in 1..Len(packages) :
                  /\ b.packages[i].name = packages[i].name
                  /\ b.packages[i].current_version = packages[i].version
           /\ b.total_packages = Len(b.packages)
           /\ b.outdated_count = CountOf(b.packages, IsOutdated)
           /\ b.vulnerable_count = CountOf(b.packages, IsVulnerable)
           /\ b.deprecated_count = CountOf(b.packages, IsDeprecated)
           /\ b.outdated_count <= b.total_packages
           /\ b.vulnerable_count <= b.total_packages
           /\ b.deprecated_count <= b.total_packages

\* the same entry twice: both are kept, one of them with two vulnerabilities
C10_Witness ==
    /\ Answered /\ request.endpoint = "python" /\ Reply.status = 200
    /\ Len(request.packages) = 2
    /\ request.packages[1] = request.packages[2]
    /\ Reply.body.total_packages = 2
    /\ Reply.body.vulnerable_count = 1
    /\ Reply.body.packages[2].vulnerability_count = 2

====
